---- MODULE Spec2Model ----
(***************************************************************************)
(* State-machine model of the MangaDesk meeting-summary server:            *)
(*   src/server/storage.ts  (MemStorage, the in-memory Record Store)       *)
(*   src/server/routes.ts   (the HTTP handlers)                            *)
(*                                                                         *)
(* A handler runs atomically between two real suspension points.  An       *)
(* `await` of a MemStorage method resumes in a microtask of the same       *)
(* turn of the event loop, so no other request runs in between; the        *)
(* suspension points are the outbound calls (fetch, import('resend'),      *)
(* resend.emails.send).                                                    *)
(***************************************************************************)
EXTENDS Integers, Sequences, FiniteSets, TLC

VARIABLES
    transcripts,   \* MemStorage.transcripts : Map, as the sequence of its values in insertion order
    summaries,     \* MemStorage.summaries
    emailShares,   \* MemStorage.emailShares
    nextId,        \* number of randomUUID() results drawn so far
    now,           \* the clock read by new Date()
    env,           \* process.env: the set of variables holding a non-empty value
    reqs,          \* the requests suspended at an outbound call, by slot
    out,           \* the last response sent, with the request that got it
    client         \* the state of the home page (src/client/src/pages/home.tsx)

vars == <<transcripts, summaries, emailShares, nextId, now, env, reqs, out, client>>

-----------------------------------------------------------------------------
(* Bounds of the model *)

MaxIds == 3            \* entities created (randomUUID() results drawn)
MaxInFlight == 2       \* requests suspended at an outbound call
MaxMailInFlight == 1   \* the same, in the email scenario

-----------------------------------------------------------------------------
(* JavaScript values that may be absent or of another type than string *)

Str(s) == [t |-> "string", v |-> s]
Undefined == [t |-> "undefined", v |-> ""]
Null == [t |-> "null", v |-> ""]
Num(s) == [t |-> "number", v |-> s]

\* JavaScript truthiness, as used by `!x`, `x || y`, `x ? a : b`
Truthy(x) ==
    CASE x.t = "string" -> x.v # ""
      [] x.t = "number" -> x.v # "0"
      [] x.t = "undefined" -> FALSE
      [] x.t = "null" -> FALSE
      [] OTHER -> TRUE

\* a ?? b
Coalesce(a, b) == IF a.t \in {"undefined", "null"} THEN b ELSE a

\* a || b
OrElse(a, b) == IF Truthy(a) THEN a ELSE b

-----------------------------------------------------------------------------
(* MemStorage *)

NewIdReused == "u1"

\* randomUUID(): a value never drawn before
NewId == "u" \o ToString(nextId)

RECURSIVE MapGet(_, _)
MapGet(m, id) ==
    IF m = <<>> THEN Undefined
    ELSE IF Head(m).id = id THEN Head(m)
    ELSE MapGet(Tail(m), id)

FoundAlways(x) == TRUE

\* a looked-up entity is an object, hence truthy; undefined is not
Found(x) == x # Undefined

Has(m, id) == \E i \in 1..Len(m) : m[i].id = id

MapSetPushing(m, id, val) == Append(m, val)

MapSetMovingToEnd(m, id, val) ==
    Append(SelectSeq(m, LAMBDA x : x.id # id), val)

\* Map.set: a new key is appended, an existing key keeps its position
MapSet(m, id, val) ==
    IF Has(m, id)
    THEN [i \in 1..Len(m) |-> IF m[i].id = id THEN val ELSE m[i]]
    ELSE Append(m, val)

NewTranscript(ins) ==
    [id |-> NewId, content |-> ins.content,
     filename |-> Coalesce(ins.filename, Null), createdAt |-> now]

getTranscriptNeverMissing(id) ==
    IF Has(transcripts, id) THEN MapGet(transcripts, id)
    ELSE [id |-> id, content |-> "", filename |-> Null, createdAt |-> 0]

getTranscript(id) == MapGet(transcripts, id)

NewSummaryKeyedByTranscript(ins) ==
    [transcriptId |-> ins.transcriptId, prompt |-> ins.prompt,
     content |-> OrElse(ins.content, Str("")).v,
     id |-> "summary-of-" \o ins.transcriptId, editedContent |-> Null, createdAt |-> now]

NewSummaryContentDropped(ins) ==
    [transcriptId |-> ins.transcriptId, prompt |-> ins.prompt,
     content |-> "",
     id |-> NewId, editedContent |-> Null, createdAt |-> now]

NewSummary(ins) ==
    [transcriptId |-> ins.transcriptId, prompt |-> ins.prompt,
     content |-> OrElse(ins.content, Str("")).v,
     id |-> NewId, editedContent |-> Null, createdAt |-> now]

getSummary(id) == MapGet(summaries, id)

UpdatedSummaryFirstWriteWins(id, editedContent) ==
    IF MapGet(summaries, id).editedContent = Null
    THEN [MapGet(summaries, id) EXCEPT !.editedContent = Str(editedContent)]
    ELSE MapGet(summaries, id)

UpdatedSummaryOverwritingContent(id, editedContent) ==
    [MapGet(summaries, id) EXCEPT !.content = editedContent, !.editedContent = Str(editedContent)]

\* `{ ...summary, editedContent }`
UpdatedSummary(id, editedContent) ==
    [MapGet(summaries, id) EXCEPT !.editedContent = Str(editedContent)]

updateSummaryContentUpserting(id, editedContent) ==
    MapSet(summaries, id,
           IF Found(getSummary(id)) THEN UpdatedSummary(id, editedContent)
           ELSE [id |-> id, editedContent |-> Str(editedContent)])

\* the summaries map after updateSummaryContent(id, editedContent)
updateSummaryContent(id, editedContent) ==
    IF Found(getSummary(id))
    THEN MapSet(summaries, id, UpdatedSummary(id, editedContent))
    ELSE summaries

\* Array.from(map.values()).filter(...): the values in the order of the map
ValuesWhere(m, transcriptId) == SelectSeq(m, LAMBDA summary : summary.transcriptId = transcriptId)

getSummariesByTranscript(transcriptId) == ValuesWhere(summaries, transcriptId)

\* what updateSummaryContent(id, editedContent) returns
updateSummaryContentResult(id, editedContent) ==
    IF Found(getSummary(id)) THEN UpdatedSummary(id, editedContent) ELSE Undefined

-----------------------------------------------------------------------------
(* Responses *)

Idle == [route |-> "idle"]

Slots == 1..MaxInFlight

FreeSlot(r) == reqs[r] = Idle /\ \A q \in Slots : q < r => reqs[q] # Idle

InFlight(route) == {r \in Slots : reqs[r].route = route}

\* an id is left for one more entity, counting those the suspended requests
\* may still create
IdLeft == nextId + Cardinality({r \in Slots : reqs[r] # Idle}) <= MaxIds

Response(route, status, message, body, req, trace) ==
    [route |-> route, status |-> status, message |-> message,
     body |-> body, req |-> req, trace |-> trace]

NoTrace == [calls |-> <<>>]

-----------------------------------------------------------------------------
(* POST /api/transcripts/upload and POST /api/transcripts *)

Contents == {"", "Alice: ship by Friday."}
Filenames == {Undefined, Str("notes.txt")}

\* insertTranscriptSchema.parse: content must be a string
TranscriptSchemaOk(body) == body.content.t = "string"

UploadTranscript(hasFile, content, originalname) ==
    LET req == [hasFile |-> hasFile, content |-> Str(content), filename |-> Str(originalname)] IN
    IF ~hasFile
    THEN /\ out' = Response("POST /api/transcripts/upload", 400, "No file uploaded", Undefined, req, NoTrace)
         /\ UNCHANGED <<transcripts, summaries, emailShares, nextId, now, env, reqs>>
    ELSE /\ IdLeft
         /\ LET t == NewTranscript([content |-> content, filename |-> Str(originalname)]) IN
            /\ transcripts' = MapSet(transcripts, t.id, t)
            /\ out' = Response("POST /api/transcripts/upload", 200, "", t, req, NoTrace)
         /\ nextId' = nextId + 1
         /\ now' = now + 1
         /\ UNCHANGED <<summaries, emailShares, env, reqs>>

PostTranscript(content, filename) ==
    LET req == [content |-> content, filename |-> filename] IN
    IF ~TranscriptSchemaOk(req)
    THEN /\ out' = Response("POST /api/transcripts", 400, "Validation error", Undefined, req, NoTrace)
         /\ UNCHANGED <<transcripts, summaries, emailShares, nextId, now, env, reqs>>
    ELSE /\ IdLeft
         /\ LET t == NewTranscript([content |-> content.v, filename |-> filename]) IN
            /\ transcripts' = MapSet(transcripts, t.id, t)
            /\ out' = Response("POST /api/transcripts", 200, "", t, req, NoTrace)
         /\ nextId' = nextId + 1
         /\ now' = now + 1
         /\ UNCHANGED <<summaries, emailShares, env, reqs>>

-----------------------------------------------------------------------------
(* POST /api/summaries *)

Providers == <<"Google Gemini", "OpenAI", "Groq">>

\* the text a provider puts in its response when it answers with one
ProviderText(p) ==
    CASE p = "Google Gemini" -> "- Ship by Friday (gemini)"
      [] p = "OpenAI" -> "- Ship by Friday (openai)"
      [] p = "Groq" -> "- Ship by Friday (groq)"

\* what one outbound provider call can come back with
Outcomes == {"text", "empty", "absent", "non2xx", "malformed", "throw"}

\* the provider answered 2xx with a non-empty text
ReturnsText(outcome) == outcome = "text"

googleApiKey == "GOOGLE_API_KEY" \in env
openaiApiKey == "OPENAI_API_KEY" \in env
groqApiKey == "GROQ_API_KEY" \in env \/ "VITE_GROQ_API_KEY" \in env

KeyOf(p) ==
    CASE p = "Google Gemini" -> googleApiKey
      [] p = "OpenAI" -> openaiApiKey
      [] p = "Groq" -> groqApiKey

AttemptsIgnoringResult(i, aiSummary) == KeyOf(Providers[i])

AttemptsUnlessDefined(i, aiSummary) ==
    IF i = 1 THEN KeyOf(Providers[1])
    ELSE aiSummary = Undefined /\ KeyOf(Providers[i])

\* the guards `if (googleApiKey)`, `if (!aiSummary && openaiApiKey)`,
\* `if (!aiSummary && groqApiKey)`
Attempts(i, aiSummary) ==
    IF i = 1 THEN KeyOf(Providers[1])
    ELSE ~Truthy(aiSummary) /\ KeyOf(Providers[i])

NextStageRetrying(after, aiSummary) ==
    LET later == {i \in 1..Len(Providers) : i >= after /\ Attempts(i, aiSummary)} IN
    IF later = {} THEN 0
    ELSE CHOOSE i \in later : \A j \in later : i <= j

\* the provider stages still to run after stage `after`, given aiSummary:
\* the index of the first stage whose guard holds, 0 when none does
NextStage(after, aiSummary) ==
    LET later == {i \in (after + 1)..Len(Providers) : Attempts(i, aiSummary)} IN
    IF later = {} THEN 0
    ELSE CHOOSE i \in later : \A j \in later : i <= j

\* aiSummary after the response of one provider has been handled
HandleResult(p, outcome, aiSummary) ==
    CASE outcome = "text" -> Str(ProviderText(p))
      [] outcome = "empty" -> Str("")
      [] outcome = "absent" -> Undefined
      [] outcome = "malformed" -> IF p = "Google Gemini" THEN Undefined ELSE aiSummary
      [] OTHER -> aiSummary

NoKeyMessage == "No AI API key configured (GOOGLE_API_KEY, OPENAI_API_KEY, or GROQ_API_KEY required)"
AllFailedMessage == "Failed to generate summary with available AI services"

NoKeyConfiguredGroqForgotten == ~googleApiKey /\ ~openaiApiKey

\* `if (!googleApiKey && !openaiApiKey && !groqApiKey)`
NoKeyConfigured == ~googleApiKey /\ ~openaiApiKey /\ ~groqApiKey

FinishSummaryKeepingPartial(r, req, aiSummary, calls) ==
    LET trace == [calls |-> calls]
        s == NewSummary([transcriptId |-> req.transcriptId.v, prompt |-> req.prompt.v,
                         content |-> IF Truthy(aiSummary) THEN aiSummary ELSE Str("")])
    IN
    IF NoKeyConfigured
    THEN /\ out' = Response("POST /api/summaries", 500, NoKeyMessage, Undefined, req, trace)
         /\ UNCHANGED <<summaries, nextId, now>>
    ELSE /\ summaries' = MapSet(summaries, s.id, s)
         /\ out' = IF Truthy(aiSummary)
                   THEN Response("POST /api/summaries", 200, "", s, req, trace)
                   ELSE Response("POST /api/summaries", 500, AllFailedMessage, Undefined, req, trace)
         /\ nextId' = nextId + 1
         /\ now' = now + 1

\* the key check, the aiSummary check, the save
FinishSummary(r, req, aiSummary, calls) ==
    LET trace == [calls |-> calls] IN
    IF NoKeyConfigured
    THEN /\ out' = Response("POST /api/summaries", 500, NoKeyMessage, Undefined, req, trace)
         /\ UNCHANGED <<summaries, nextId, now>>
    ELSE IF ~Truthy(aiSummary)
    THEN /\ out' = Response("POST /api/summaries", 500, AllFailedMessage, Undefined, req, trace)
         /\ UNCHANGED <<summaries, nextId, now>>
    ELSE /\ LET s == NewSummary([transcriptId |-> req.transcriptId.v,
                                 prompt |-> req.prompt.v, content |-> aiSummary]) IN
            /\ summaries' = MapSet(summaries, s.id, s)
            /\ out' = Response("POST /api/summaries", 200, "", s, req, trace)
         /\ nextId' = nextId + 1
         /\ now' = now + 1

\* run the handler from the end of stage `after` to its next suspension point
\* (apiUsed only feeds console.log and is not kept)
Continue(r, req, transcript, after, aiSummary, calls) ==
    LET i == NextStage(after, aiSummary) IN
    IF i = 0
    THEN /\ FinishSummary(r, req, aiSummary, calls)
         /\ reqs' = [reqs EXCEPT ![r] = Idle]
    ELSE /\ reqs' = [reqs EXCEPT ![r] =
                [route |-> "POST /api/summaries", stage |-> i, req |-> req,
                 transcript |-> transcript, aiSummary |-> aiSummary,
                 calls |-> calls]]
         /\ UNCHANGED <<summaries, nextId, now, out>>

TranscriptIdInputs ==
    {Undefined, Str("no-such-id")} \cup {Str(transcripts[i].id) : i \in 1..Len(transcripts)}

PromptInputs == {Str(""), Str("list action items")}

PostSummaries(r, transcriptId, prompt) ==
    LET req == [transcriptId |-> transcriptId, prompt |-> prompt] IN
    /\ FreeSlot(r)
    /\ UNCHANGED <<transcripts, emailShares, env>>
    /\ IF ~Truthy(transcriptId)
       THEN /\ out' = Response("POST /api/summaries", 400, "transcriptId is required", Undefined, req, NoTrace)
            /\ UNCHANGED <<summaries, nextId, now, reqs>>
       ELSE IF ~Truthy(prompt)
       THEN /\ out' = Response("POST /api/summaries", 400, "prompt is required", Undefined, req, NoTrace)
            /\ UNCHANGED <<summaries, nextId, now, reqs>>
       ELSE IF ~Found(getTranscript(transcriptId.v))
       THEN /\ out' = Response("POST /api/summaries", 404, "Transcript not found", Undefined, req, NoTrace)
            /\ UNCHANGED <<summaries, nextId, now, reqs>>
       ELSE /\ IdLeft
            /\ Continue(r, req, getTranscript(transcriptId.v), 0, Undefined, <<>>)

\* the response of the provider call a request is suspended at
ProviderResponds(r, outcome) ==
    /\ reqs[r].route = "POST /api/summaries"
    /\ UNCHANGED <<transcripts, emailShares, env>>
    /\ LET q == reqs[r]
           p == Providers[q.stage]
       IN Continue(r, q.req, q.transcript, q.stage,
                   HandleResult(p, outcome, q.aiSummary),
                   Append(q.calls, [provider |-> p, ok |-> ReturnsText(outcome)]))

-----------------------------------------------------------------------------
(* PATCH /api/summaries/:id and GET /api/summaries/:id *)

PatchRoute == "PATCH /api/summaries/:id"
GetRoute == "GET /api/summaries/:id"

SummaryIdInputs == {"no-such-id"} \cup {summaries[i].id : i \in 1..Len(summaries)}

EditedContentInputs ==
    {Num("7"), Str(""), Str("- Ship by Friday (owner: Alice)"), Str("- Ship by Friday (gemini)")}

\* trace.before is the stored entity when the request arrived
PatchSummary(id, editedContent) ==
    LET req == [id |-> id, editedContent |-> editedContent]
        trace == [calls |-> <<>>, before |-> getSummary(id)]
    IN
    /\ UNCHANGED <<transcripts, emailShares, nextId, now, env, reqs>>
    /\ IF editedContent.t # "string"
       THEN /\ out' = Response(PatchRoute, 400, "editedContent must be a string", Undefined, req, trace)
            /\ UNCHANGED summaries
       ELSE /\ summaries' = updateSummaryContent(id, editedContent.v)
            /\ IF ~Found(updateSummaryContentResult(id, editedContent.v))
               THEN out' = Response(PatchRoute, 404, "Summary not found", Undefined, req, trace)
               ELSE out' = Response(PatchRoute, 200, "", updateSummaryContentResult(id, editedContent.v), req, trace)

GetSummary(id) ==
    LET req == [id |-> id] IN
    /\ UNCHANGED <<transcripts, summaries, emailShares, nextId, now, env, reqs>>
    /\ IF ~Found(getSummary(id))
       THEN out' = Response(GetRoute, 404, "Summary not found", Undefined, req, NoTrace)
       ELSE out' = Response(GetRoute, 200, "", getSummary(id), req, NoTrace)

-----------------------------------------------------------------------------
(* POST /api/email/send *)

EmailRoute == "POST /api/email/send"

\* A JSON text is the sequence of its tokens.  JSON.parse for the texts the
\* requests carry: a scalar, the empty object, or a flat array of scalars;
\* anything else is a SyntaxError.
StringLiterals == ("\"a@x.com\"" :> "a@x.com") @@ ("\"not-an-address\"" :> "not-an-address")
NumberLiterals == {"1"}

IsScalar(tok) == tok \in DOMAIN StringLiterals \/ tok \in NumberLiterals

ScalarValue(tok) == IF tok \in DOMAIN StringLiterals THEN Str(StringLiterals[tok]) ELSE Num(tok)

SyntaxError == [t |-> "SyntaxError", v |-> <<>>]

JSONParse(toks) ==
    LET n == Len(toks) IN
    IF n = 1 /\ IsScalar(toks[1]) THEN ScalarValue(toks[1])
    ELSE IF toks = <<"{", "}">> THEN [t |-> "object", v |-> <<>>]
    ELSE IF n >= 2 /\ toks[1] = "[" /\ toks[n] = "]"
    THEN LET inner == SubSeq(toks, 2, n - 1) IN
         IF inner = <<>> THEN [t |-> "array", v |-> <<>>]
         ELSE IF /\ Len(inner) % 2 = 1
                 /\ \A i \in 1..Len(inner) :
                        IF i % 2 = 1 THEN IsScalar(inner[i]) ELSE inner[i] = ","
         THEN [t |-> "array",
               v |-> [k \in 1..((Len(inner) + 1) \div 2) |-> ScalarValue(inner[2 * k - 1])]]
         ELSE SyntaxError
    ELSE SyntaxError

IsArray(x) == x.t = "array"

InvalidRecipientsLengthForgotten(recipients) == ~IsArray(recipients)

\* `!Array.isArray(recipients) || recipients.length === 0`
InvalidRecipients(recipients) == ~IsArray(recipients) \/ Len(recipients.v) = 0

\* insertEmailShareSchema.parse: summaryId, recipients and subject are
\* strings, message is an optional string, includeTranscript a boolean
EmailSchemaOk(body) ==
    /\ body.summaryId.t = "string"
    /\ body.recipients.t = "string"
    /\ body.subject.t = "string"
    /\ body.message.t \in {"string", "undefined"}

\* `summary.editedContent || summary.content`
SummaryContent(summary) == OrElse(summary.editedContent, Str(summary.content)).v

\* the email text, as the sequence of the pieces concatenated
EmailBody(message, summaryContent) ==
    (IF Truthy(message) THEN <<message.v, "\n\n---\n\n">> ELSE <<>>)
        \o <<"MEETING SUMMARY\n\n", summaryContent>>

AttachmentsWheneverAsked(includeTranscript, transcript) ==
    IF includeTranscript
    THEN <<[filename |-> OrElse(transcript.filename, Str("transcript.txt")).v,
            content |-> transcript.content, type |-> "text/plain"]>>
    ELSE <<>>

\* `if (emailData.includeTranscript && transcript.content)`, with
\* `filename: transcript.filename || 'transcript.txt'`
Attachments(includeTranscript, transcript) ==
    IF includeTranscript /\ transcript.content # ""
    THEN <<[filename |-> OrElse(transcript.filename, Str("transcript.txt")).v,
            content |-> transcript.content, type |-> "text/plain"]>>
    ELSE <<>>

NewEmailShare(ins) ==
    [summaryId |-> ins.summaryId.v, recipients |-> ins.recipients.v,
     subject |-> ins.subject.v, id |-> NewId,
     message |-> Coalesce(ins.message, Null),
     includeTranscript |-> ins.includeTranscript, sentAt |-> now]

\* trace of an email request: the summary it loaded, the calls made to the
\* mail service and what the call came back with
NoMail == [calls |-> <<>>, summary |-> Undefined, mail |-> <<>>, result |-> "none"]

PostEmailSendRecipientsFirst(r, body) ==
    /\ FreeSlot(r)
    /\ UNCHANGED <<transcripts, summaries, emailShares, nextId, now, env>>
    /\ IF ~EmailSchemaOk(body)
       THEN /\ out' = Response(EmailRoute, 400, "Validation error", Undefined, body, NoMail)
            /\ UNCHANGED reqs
       ELSE IF JSONParse(body.recipients.v) = SyntaxError
       THEN /\ out' = Response(EmailRoute, 500, "Failed to send email", Undefined, body, NoMail)
            /\ UNCHANGED reqs
       ELSE IF InvalidRecipients(JSONParse(body.recipients.v))
       THEN /\ out' = Response(EmailRoute, 400, "Invalid recipients", Undefined, body, NoMail)
            /\ UNCHANGED reqs
       ELSE IF ~Found(getSummary(body.summaryId.v))
       THEN /\ out' = Response(EmailRoute, 404, "Summary not found", Undefined, body, NoMail)
            /\ UNCHANGED reqs
       ELSE LET summary == getSummary(body.summaryId.v)
                transcript == getTranscript(summary.transcriptId)
            IN
            /\ IdLeft
            /\ reqs' = [reqs EXCEPT ![r] =
                   [route |-> EmailRoute, pc |-> "import", req |-> body,
                    summary |-> summary, transcript |-> transcript,
                    send |-> [to |-> JSONParse(body.recipients.v).v, subject |-> body.subject.v,
                              text |-> EmailBody(body.message, SummaryContent(summary)),
                              attachments |-> Attachments(body.includeTranscript, transcript)],
                    mail |-> <<>>]]
            /\ UNCHANGED out

PostEmailSend(r, body) ==
    /\ FreeSlot(r)
    /\ UNCHANGED <<transcripts, summaries, emailShares, nextId, now, env>>
    /\ IF ~EmailSchemaOk(body)
       THEN /\ out' = Response(EmailRoute, 400, "Validation error", Undefined, body, NoMail)
            /\ UNCHANGED reqs
       ELSE IF ~Found(getSummary(body.summaryId.v))
       THEN /\ out' = Response(EmailRoute, 404, "Summary not found", Undefined, body, NoMail)
            /\ UNCHANGED reqs
       ELSE IF ~Found(getTranscript(getSummary(body.summaryId.v).transcriptId))
       THEN /\ out' = Response(EmailRoute, 404, "Transcript not found", Undefined, body, NoMail)
            /\ UNCHANGED reqs
       ELSE LET summary == getSummary(body.summaryId.v)
                transcript == getTranscript(summary.transcriptId)
                recipients == JSONParse(body.recipients.v)
            IN
            IF recipients = SyntaxError
            THEN /\ out' = Response(EmailRoute, 500, "Failed to send email", Undefined, body, NoMail)
                 /\ UNCHANGED reqs
            ELSE IF InvalidRecipients(recipients)
            THEN /\ out' = Response(EmailRoute, 400, "Invalid recipients", Undefined, body, NoMail)
                 /\ UNCHANGED reqs
            ELSE /\ IdLeft
                 /\ reqs' = [reqs EXCEPT ![r] =
                        [route |-> EmailRoute, pc |-> "import", req |-> body,
                         summary |-> summary, transcript |-> transcript,
                         send |-> [to |-> recipients.v, subject |-> body.subject.v,
                                   text |-> EmailBody(body.message, SummaryContent(summary)),
                                   attachments |-> Attachments(body.includeTranscript, transcript)],
                         mail |-> <<>>]]
                 /\ UNCHANGED out

\* import('resend') resolved: resend.emails.send(...) is called
ImportResolves(r) ==
    /\ reqs[r].route = EmailRoute
    /\ reqs[r].pc = "import"
    /\ reqs' = [reqs EXCEPT ![r].pc = "send", ![r].mail = <<reqs[r].send>>]
    /\ UNCHANGED <<transcripts, summaries, emailShares, nextId, now, env, out>>

MailResults == {"ok", "error", "throw"}

MailErrorMessage == "The recipient address is invalid"

\* the message of the Error that a throwing resend.emails.send raises
MailThrowMessage == "getaddrinfo ENOTFOUND api.resend.com"

SavesShareWhateverResult(result) == TRUE

\* the record is saved when the send neither threw nor returned an error
SavesShare(result) == result = "ok"

\* resend.emails.send(...) came back
MailResponds(r, result) ==
    LET q == reqs[r]
        trace == [calls |-> <<>>, summary |-> q.summary, mail |-> q.mail, result |-> result]
    IN
    /\ q.route = EmailRoute
    /\ q.pc = "send"
    /\ reqs' = [reqs EXCEPT ![r] = Idle]
    /\ UNCHANGED <<transcripts, summaries, env>>
    /\ IF SavesShare(result)
       THEN /\ LET e == NewEmailShare(q.req) IN
               /\ emailShares' = MapSet(emailShares, e.id, e)
               /\ out' = Response(EmailRoute, 200, "", e, q.req, trace)
            /\ nextId' = nextId + 1
            /\ now' = now + 1
       ELSE /\ out' = Response(EmailRoute, 500,
                        IF result = "error" THEN "Resend error: " \o MailErrorMessage
                        ELSE "Failed to send email",
                        Undefined, q.req, trace)
            /\ UNCHANGED <<emailShares, nextId, now>>

-----------------------------------------------------------------------------

EnvVars == {"GOOGLE_API_KEY", "OPENAI_API_KEY", "GROQ_API_KEY", "VITE_GROQ_API_KEY"}

Init ==
    /\ transcripts = <<>>
    /\ summaries = <<>>
    /\ emailShares = <<>>
    /\ nextId = 1
    /\ now = 1
    /\ env \in SUBSET EnvVars
    /\ reqs = [r \in Slots |-> Idle]
    /\ out = Response("none", 0, "", Undefined, Undefined, NoTrace)
    /\ client = [currentTranscript |-> Null, currentSummary |-> Null,
                 editedSummaryContent |-> ""]

\* The summary-generation scenario: transcripts are pasted, summaries are
\* requested by up to MaxInFlight concurrent requests.
NextSummary ==
    \/ \E c \in {Undefined, Str("Alice: ship by Friday.")} : PostTranscript(c, Undefined) /\ UNCHANGED client
    \/ \E r \in Slots, t \in TranscriptIdInputs, p \in PromptInputs : PostSummaries(r, t, p) /\ UNCHANGED client
    \/ \E r \in Slots, o \in Outcomes : ProviderResponds(r, o) /\ UNCHANGED client

SpecSummary == Init /\ [][NextSummary]_vars

\* The same scenario when every provider call returns or throws: the call a
\* request is suspended at is answered, with some outcome. The Groq key, if
\* set, is set under its first name (the second name gives the same groqApiKey).
InitFair == Init /\ "VITE_GROQ_API_KEY" \notin env

SpecSummaryFair ==
    /\ InitFair
    /\ [][NextSummary]_vars
    /\ \A r \in Slots : WF_vars(\E o \in Outcomes : ProviderResponds(r, o) /\ UNCHANGED client)

\* The editing scenario: one provider is configured; summaries are generated,
\* edited and read back while other generations are in flight.
InitEdit == Init /\ env = {"GOOGLE_API_KEY"}

NextEdit ==
    \/ PostTranscript(Str("Alice: ship by Friday."), Undefined) /\ UNCHANGED client
    \/ \E r \in Slots, t \in TranscriptIdInputs : PostSummaries(r, t, Str("list action items")) /\ UNCHANGED client
    \/ \E r \in Slots, o \in {"text", "non2xx"} : ProviderResponds(r, o) /\ UNCHANGED client
    \/ \E id \in SummaryIdInputs, e \in EditedContentInputs : PatchSummary(id, e) /\ UNCHANGED client
    \/ \E id \in SummaryIdInputs : GetSummary(id) /\ UNCHANGED client

SpecEdit == InitEdit /\ [][NextEdit]_vars

\* The email scenario: one provider is configured and answers; transcripts
\* are uploaded or pasted, summaries generated and edited, and emails sent by
\* up to MaxMailInFlight requests at a time.
RecipientTexts ==
    [notJson |-> <<"a@x.com">>,
     object |-> <<"{", "}">>,
     empty |-> <<"[", "]">>,
     one |-> <<"[", "\"a@x.com\"", "]">>,
     notAddress |-> <<"[", "\"not-an-address\"", "]">>]

Body(summaryId, recipients, message, includeTranscript) ==
    [summaryId |-> Str(summaryId), recipients |-> recipients,
     subject |-> Str("Meeting Summary"), message |-> message,
     includeTranscript |-> includeTranscript]

StoredSummaryIds == {summaries[i].id : i \in 1..Len(summaries)}

\* the request bodies: for a stored summary, one recipient with and without
\* a message and the transcript, and each other recipients text;
\* for an unknown summaryId, a valid, an empty and a malformed recipients
\* text; and a body without recipients
EmailBodies ==
    {Body(id, Str(RecipientTexts.one), mi[1], mi[2]) :
        id \in StoredSummaryIds,
        mi \in {<<Undefined, FALSE>>, <<Undefined, TRUE>>, <<Str("FYI"), TRUE>>}}
    \cup {Body(id, Str(RecipientTexts[k]), Undefined, FALSE) :
        id \in StoredSummaryIds, k \in {"notJson", "object", "empty", "notAddress"}}
    \cup {Body("no-such-id", Str(RecipientTexts[k]), Undefined, FALSE) :
        k \in {"one", "empty", "notJson"}}
    \cup {Body("no-such-id", Undefined, Undefined, FALSE)}

MailSlots == 1..MaxMailInFlight

NextEmail ==
    \/ UploadTranscript(TRUE, "Alice: ship by Friday.", "notes.txt") /\ UNCHANGED client
    \/ \E c \in {Str(""), Str("Alice: ship by Friday.")} : PostTranscript(c, Undefined) /\ UNCHANGED client
    \/ \E r \in MailSlots, t \in TranscriptIdInputs : PostSummaries(r, t, Str("list action items")) /\ UNCHANGED client
    \/ \E r \in MailSlots : ProviderResponds(r, "text") /\ UNCHANGED client
    \/ \E id \in SummaryIdInputs, e \in {Str(""), Str("- Ship by Friday (owner: Alice)")} :
            PatchSummary(id, e) /\ UNCHANGED client
    \/ \E r \in MailSlots, body \in EmailBodies : PostEmailSend(r, body) /\ UNCHANGED client
    \/ \E r \in MailSlots : ImportResolves(r) /\ UNCHANGED client
    \/ \E r \in MailSlots, result \in MailResults : MailResponds(r, result) /\ UNCHANGED client

SpecEmail == InitEdit /\ [][NextEmail]_vars

\* The attachment scenario: transcripts with and without content and with a
\* filename, an empty filename or none; one configured provider that answers;
\* emails to one recipient with and without the transcript.
NextAttach ==
    \/ UploadTranscript(TRUE, "Alice: ship by Friday.", "notes.txt") /\ UNCHANGED client
    \/ \E c \in Contents, f \in Filenames \cup {Str("")} : PostTranscript(Str(c), f) /\ UNCHANGED client
    \/ \E t \in TranscriptIdInputs : PostSummaries(1, t, Str("list action items")) /\ UNCHANGED client
    \/ ProviderResponds(1, "text") /\ UNCHANGED client
    \/ \E id \in StoredSummaryIds, i \in BOOLEAN :
            PostEmailSend(1, Body(id, Str(RecipientTexts.one), Undefined, i)) /\ UNCHANGED client
    \/ ImportResolves(1) /\ UNCHANGED client
    \/ \E result \in MailResults : MailResponds(1, result) /\ UNCHANGED client

SpecAttach == InitEdit /\ [][NextAttach]_vars

-----------------------------------------------------------------------------
(* The home page, src/client/src/pages/home.tsx.  A step of the page is a  *)
(* handler together with the request it sends, answered, and the onSuccess *)
(* callback of the answer.                                                 *)

Server == <<transcripts, summaries, emailShares, nextId, now, env, reqs, out>>

\* what the user leaves in the summary editor
EditorTexts ==
    {"- Ship by Friday (gemini)", "- Ship by Friday (owner: Alice)", "- Ship by Friday"}

\* handleTranscriptTextSubmit, createTranscriptMutation.onSuccess
handleTranscriptTextSubmit(transcriptText) ==
    /\ PostTranscript(Str(transcriptText), Undefined)
    /\ client' = [client EXCEPT !.currentTranscript = out'.body]

\* handleGenerateSummary and handleRegenerateSummary; their buttons are
\* disabled while generateSummaryMutation.isPending
handleGenerateSummary(r, customPrompt) ==
    /\ client.currentTranscript # Null
    /\ InFlight("POST /api/summaries") = {}
    /\ PostSummaries(r, Str(client.currentTranscript.id), Str(customPrompt))
    /\ UNCHANGED client

\* the generation is answered: generateSummaryMutation.onSuccess on a 200
generateSummaryAnswered(r, outcome) ==
    /\ ProviderResponds(r, outcome)
    /\ client' = IF reqs'[r] = Idle /\ out'.status = 200
                 THEN [client EXCEPT !.currentSummary = out'.body,
                                     !.editedSummaryContent = out'.body.content]
                 ELSE client

\* `currentSummary && editedSummaryContent !== currentSummary.content`
SendsUpdate(currentSummary, editedSummaryContent) ==
    currentSummary # Null /\ editedSummaryContent # currentSummary.content

\* the editor's onChange to `text` and then its onBlur, handleSummaryEdit,
\* with updateSummaryMutation.onSuccess when an update was sent
handleSummaryEdit(text) ==
    /\ client.currentSummary # Null
    /\ IF SendsUpdate(client.currentSummary, text)
       THEN /\ PatchSummary(client.currentSummary.id, Str(text))
            /\ client' = [client EXCEPT !.editedSummaryContent = text,
                                        !.currentSummary = out'.body]
       ELSE /\ client' = [client EXCEPT !.editedSummaryContent = text]
            /\ UNCHANGED Server

\* onEmailSubmit with one address typed
onEmailSubmit(r) ==
    /\ client.currentSummary # Null
    /\ PostEmailSend(r, Body(client.currentSummary.id, Str(RecipientTexts.one), Undefined, FALSE))
    /\ UNCHANGED client

\* The page scenario: one user of the page, one configured provider.
NextClient ==
    \/ handleTranscriptTextSubmit("Alice: ship by Friday.")
    \/ \E r \in Slots : handleGenerateSummary(r, "list action items")
    \/ \E r \in Slots, o \in {"text", "non2xx"} : generateSummaryAnswered(r, o)
    \/ \E text \in EditorTexts : handleSummaryEdit(text)
    \/ \E r \in Slots : onEmailSubmit(r)
    \/ \E r \in Slots : ImportResolves(r) /\ UNCHANGED client
    \/ \E r \in Slots, result \in {"ok", "error"} : MailResponds(r, result) /\ UNCHANGED client

SpecClient == InitEdit /\ [][NextClient]_vars

\* Every request with every input, and the steps of the page.
Next ==
    \/ NextClient
    \/ \E hasFile \in BOOLEAN, c \in Contents : UploadTranscript(hasFile, c, "notes.txt") /\ UNCHANGED client
    \/ \E c \in {Undefined} \cup {Str(x) : x \in Contents}, f \in Filenames : PostTranscript(c, f) /\ UNCHANGED client
    \/ \E r \in Slots, t \in TranscriptIdInputs, p \in PromptInputs : PostSummaries(r, t, p) /\ UNCHANGED client
    \/ \E r \in Slots, o \in Outcomes : ProviderResponds(r, o) /\ UNCHANGED client
    \/ \E id \in SummaryIdInputs, e \in EditedContentInputs : PatchSummary(id, e) /\ UNCHANGED client
    \/ \E id \in SummaryIdInputs : GetSummary(id) /\ UNCHANGED client
    \/ \E r \in Slots, body \in EmailBodies : PostEmailSend(r, body) /\ UNCHANGED client
    \/ \E r \in Slots : ImportResolves(r) /\ UNCHANGED client
    \/ \E r \in Slots, result \in MailResults : MailResponds(r, result) /\ UNCHANGED client

Spec == Init /\ [][Next]_vars

-----------------------------------------------------------------------------
(* Properties of POST /api/summaries *)

Priority(p) == CHOOSE i \in 1..Len(Providers) : Providers[i] = p

SummaryRoute == "POST /api/summaries"

\* the provider calls a request has made: those that came back, then the
\* call it is suspended at (if any)
CalledProviders(cs, stage) ==
    [i \in 1..Len(cs) |-> cs[i].provider] \o (IF stage = 0 THEN <<>> ELSE <<Providers[stage]>>)

\* every call in `called` comes after a failed call to each configured
\* provider of higher priority, and nothing is called after a success
InPriorityOrder(cs, stage) ==
    LET called == CalledProviders(cs, stage) IN
    /\ \A i, j \in 1..Len(called) : i < j => Priority(called[i]) < Priority(called[j])
    /\ \A i \in 1..Len(called) : \A h \in 1..Len(Providers) :
          (h < Priority(called[i]) /\ KeyOf(Providers[h])) =>
              \E k \in 1..Len(cs) : k < i /\ cs[k].provider = Providers[h] /\ ~cs[k].ok
    /\ \A k \in 1..Len(cs) : cs[k].ok => k = Len(called)

FailedThenText(cs, a, b) ==
    \E i, j \in 1..Len(cs) :
        /\ cs[i].provider = a /\ ~cs[i].ok
        /\ cs[j].provider = b /\ cs[j].ok

\* C1: within one POST /api/summaries request the providers are called in
\* the order Gemini, OpenAI, Groq, each only after every configured provider
\* of higher priority was called and failed; and when Gemini fails and
\* OpenAI returns a non-empty text, the persisted summary holds OpenAI's text
\* and Groq was not called.
C1_PriorityOrder ==
    /\ \A r \in InFlight(SummaryRoute) : InPriorityOrder(reqs[r].calls, reqs[r].stage)
    /\ out.route = SummaryRoute =>
        /\ InPriorityOrder(out.trace.calls, 0)
        /\ FailedThenText(out.trace.calls, "Google Gemini", "OpenAI") =>
            /\ out.status = 200
            /\ out.body.content = ProviderText("OpenAI")
            /\ getSummary(out.body.id) = out.body
            /\ \A k \in 1..Len(out.trace.calls) : out.trace.calls[k].provider # "Groq"

C1_Witness ==
    /\ out.route = SummaryRoute
    /\ groqApiKey
    /\ FailedThenText(out.trace.calls, "Google Gemini", "OpenAI")
    /\ out.status = 200

ValidSummaryRequest(req) ==
    /\ Truthy(req.transcriptId) /\ Truthy(req.prompt)
    /\ Has(transcripts, req.transcriptId.v)

\* C2: with no provider credential configured, a valid request for an
\* existing transcript is answered 500 'No AI API key configured' without
\* any provider call; with a credential configured and every call failed
\* the answer is a different one.
C2_NoKeyConfigured ==
    /\ (~googleApiKey /\ ~openaiApiKey /\ ~groqApiKey) =>
        /\ InFlight(SummaryRoute) = {}
        /\ (out.route = SummaryRoute /\ ValidSummaryRequest(out.req)) =>
            /\ out.status = 500
            /\ out.message = NoKeyMessage
            /\ out.trace.calls = <<>>
    /\ (out.route = SummaryRoute /\ (googleApiKey \/ openaiApiKey \/ groqApiKey)
            /\ ValidSummaryRequest(out.req)
            /\ \A k \in 1..Len(out.trace.calls) : ~out.trace.calls[k].ok) =>
        /\ out.status = 500
        /\ out.message = AllFailedMessage
        /\ out.message # NoKeyMessage

C2_Witness ==
    /\ env = {}
    /\ out.route = SummaryRoute
    /\ ValidSummaryRequest(out.req)
    /\ out.status = 500

UnknownTranscriptId(req) ==
    /\ req.transcriptId.t = "string"
    /\ req.transcriptId.v # ""
    /\ ~Has(transcripts, req.transcriptId.v)

\* C3 as stated: a request whose transcriptId is not in the store is
\* answered 404 'Transcript not found', whatever the prompt and the
\* credentials, and makes no provider call.
C3_Original ==
    (out.route = SummaryRoute /\ UnknownTranscriptId(out.req)) =>
        /\ out.status = 404
        /\ out.message = "Transcript not found"
        /\ out.trace.calls = <<>>

\* C3 as amended: a request whose transcriptId is not in the store is
\* answered 404 'Transcript not found' when its prompt is non-empty and 400
\* 'prompt is required' when its prompt is empty; in both cases, whatever
\* the credentials, no provider call is made for it.
C3_UnknownTranscript ==
    /\ \A r \in InFlight(SummaryRoute) : ~UnknownTranscriptId(reqs[r].req)
    /\ (out.route = SummaryRoute /\ UnknownTranscriptId(out.req)) =>
        /\ out.trace.calls = <<>>
        /\ IF Truthy(out.req.prompt)
           THEN out.status = 404 /\ out.message = "Transcript not found"
           ELSE out.status = 400 /\ out.message = "prompt is required"

C3_Witness ==
    /\ out.route = SummaryRoute
    /\ UnknownTranscriptId(out.req)
    /\ Truthy(out.req.prompt)
    /\ googleApiKey /\ openaiApiKey /\ groqApiKey
    /\ out.status = 404

FirstOk(cs) == CHOOSE k \in 1..Len(cs) : cs[k].ok /\ \A j \in 1..Len(cs) : cs[j].ok => k <= j

\* C4: a request during which a configured provider returned a non-empty
\* text is answered with a Summary, stored under its id, whose transcriptId
\* and prompt are the request's, whose content is the text of the first
\* provider (in priority order) that succeeded, and whose editedContent is
\* absent.
C4_SummaryCreated ==
    (out.route = SummaryRoute /\ \E k \in 1..Len(out.trace.calls) : out.trace.calls[k].ok) =>
        /\ out.status = 200
        /\ Has(transcripts, out.req.transcriptId.v)
        /\ out.body.transcriptId = out.req.transcriptId.v
        /\ out.body.prompt = out.req.prompt.v
        /\ out.body.content # ""
        /\ out.body.content = ProviderText(out.trace.calls[FirstOk(out.trace.calls)].provider)
        /\ out.body.editedContent = Null
        /\ getSummary(out.body.id) = out.body

C4_Witness ==
    /\ out.route = SummaryRoute
    /\ out.status = 200
    /\ Len(out.trace.calls) = 3
    /\ out.trace.calls[3].ok
    /\ Len(summaries) = 2

\* the providers called are configured ones, none is called twice, and
\* there are at most as many calls as providers
CalledAtMostOnce(called) ==
    /\ \A i \in 1..Len(called) : KeyOf(called[i])
    /\ \A i, j \in 1..Len(called) : called[i] = called[j] => i = j
    /\ Len(called) <= 3

\* C15: within one POST /api/summaries request a provider is called only
\* if its credential is configured, and each provider at most once, a failed
\* one included; so a request makes at most three provider calls.
C15_AtMostOnce ==
    /\ \A r \in InFlight(SummaryRoute) :
          CalledAtMostOnce(CalledProviders(reqs[r].calls, reqs[r].stage))
    /\ out.route = SummaryRoute => CalledAtMostOnce(CalledProviders(out.trace.calls, 0))

\* three configured providers, each called once, all failed
C15_Witness ==
    /\ out.route = SummaryRoute
    /\ out.status = 500
    /\ Len(out.trace.calls) = 3
    /\ \A k \in 1..3 : ~out.trace.calls[k].ok /\ out.trace.calls[k].provider = Providers[k]

\* the configured provider that follows stage i in priority order, 0 when
\* there is none
NextConfigured(i) ==
    LET later == {j \in 1..Len(Providers) : j > i /\ KeyOf(Providers[j])} IN
    IF later = {} THEN 0 ELSE CHOOSE j \in later : \A k \in later : j <= k

\* C16: when a provider call comes back with a 2xx response whose text is
\* empty or absent, with a non-2xx response, with an exception or with a
\* malformed body, the request calls the next configured provider, and is
\* answered 500 'Failed to generate summary' without saving when there is
\* none; when the call comes back with a non-empty text the request calls no
\* further provider and is answered with the Summary that holds that text.
C16_FailureProceeds ==
    [][\A r \in Slots, o \in Outcomes :
          ProviderResponds(r, o) =>
             IF o = "text"
             THEN /\ reqs'[r] = Idle
                  /\ out'.status = 200
                  /\ out'.body.content = ProviderText(Providers[reqs[r].stage])
                  /\ out'.trace.calls[Len(out'.trace.calls)].provider = Providers[reqs[r].stage]
                  /\ summaries' = Append(summaries, out'.body)
             ELSE IF NextConfigured(reqs[r].stage) # 0
             THEN /\ reqs'[r].route = SummaryRoute
                  /\ reqs'[r].stage = NextConfigured(reqs[r].stage)
                  /\ reqs'[r].calls = Append(reqs[r].calls,
                        [provider |-> Providers[reqs[r].stage], ok |-> FALSE])
                  /\ out' = out /\ summaries' = summaries
             ELSE /\ reqs'[r] = Idle
                  /\ out'.status = 500 /\ out'.message = AllFailedMessage
                  /\ summaries' = summaries
      ]_vars

\* a request waiting for Groq after Gemini failed and OpenAI answered 2xx
\* with an empty text
C16_Witness ==
    \E r \in Slots :
        /\ reqs[r].route = SummaryRoute
        /\ reqs[r].stage = 3
        /\ Len(reqs[r].calls) = 2
        /\ reqs[r].aiSummary = Str("")

-----------------------------------------------------------------------------
(* Properties of PATCH /api/summaries/:id *)

Store == <<transcripts, summaries, emailShares>>

EditStrings == {e.v : e \in {x \in EditedContentInputs : x.t = "string"}}

\* C5: editing an existing summary to the string X makes getSummary(id)
\* return the entity with editedContent = X and every other field (content,
\* transcriptId, prompt, id, createdAt) as before, answers with that entity,
\* and calls no provider; and GET /api/summaries/:id answers with what
\* getSummary(id) holds.
C5_EditThenGet ==
    [][/\ \A id \in SummaryIdInputs, X \in EditStrings :
            (PatchSummary(id, Str(X)) /\ Has(summaries, id)) =>
                /\ MapGet(summaries', id) = [getSummary(id) EXCEPT !.editedContent = Str(X)]
                /\ out'.status = 200
                /\ out'.body = MapGet(summaries', id)
                /\ reqs' = reqs
       /\ \A id \in SummaryIdInputs :
            (GetSummary(id) /\ Has(summaries, id)) =>
                /\ out'.status = 200
                /\ out'.body = getSummary(id)
                /\ reqs' = reqs /\ Store' = Store
      ]_vars

\* an edit to the empty string of a summary that had been edited before
C5_Witness ==
    /\ out.route = PatchRoute
    /\ out.status = 200
    /\ out.req.editedContent = Str("")
    /\ out.trace.before.editedContent = Str("- Ship by Friday (owner: Alice)")
    /\ getSummary(out.req.id).editedContent = Str("")
    /\ getSummary(out.req.id).content = ProviderText("Google Gemini")

\* C6: when PATCH /api/summaries/:id with the string X has just been
\* answered 200 and the same request is made again, the second call leaves
\* the whole store (transcripts, summaries, email shares) as the first left it.
C6_EditIdempotent ==
    [][\A id \in SummaryIdInputs, X \in EditStrings :
            (/\ out.route = PatchRoute /\ out.status = 200
             /\ out.req = [id |-> id, editedContent |-> Str(X)]
             /\ PatchSummary(id, Str(X))) =>
                    Store' = Store
      ]_vars

\* the second of two equal edits has been answered, with two summaries stored
C6_Witness ==
    /\ out.route = PatchRoute
    /\ out.status = 200
    /\ out.trace.before.editedContent = out.req.editedContent
    /\ Len(summaries) = 2

-----------------------------------------------------------------------------
(* Properties of POST /api/email/send *)

EmptyList == [t |-> "array", v |-> <<>>]

EmptyRecipients(req) ==
    /\ req.recipients.t = "string"
    /\ JSONParse(req.recipients.v) = EmptyList

\* no mail call was made for the request and no share stored for it
NothingSent == out.trace.mail = <<>> /\ out.trace.result = "none" /\ out.body = Undefined

SharesHaveRecipients ==
    \A i \in 1..Len(emailShares) :
        /\ IsArray(JSONParse(emailShares[i].recipients))
        /\ Len(JSONParse(emailShares[i].recipients).v) > 0

\* C7 as stated: a send request with an empty recipients list is always
\* answered 400 'Invalid recipients', calls no mail provider and stores no
\* EmailShare.
C7_Original ==
    (out.route = EmailRoute /\ EmptyRecipients(out.req)) =>
        /\ out.status = 400
        /\ out.message = "Invalid recipients"
        /\ NothingSent

\* C7 as amended: a send request with an empty recipients list is answered
\* 400 'Invalid recipients' when its summary (and transcript) exist and 404
\* 'Summary not found' when the summaryId is unknown; in both cases the mail
\* provider is not called and no EmailShare is stored.
C7_EmptyRecipients ==
    /\ \A r \in InFlight(EmailRoute) : ~EmptyRecipients(reqs[r].req)
    /\ SharesHaveRecipients
    /\ (out.route = EmailRoute /\ EmptyRecipients(out.req)) =>
        /\ NothingSent
        /\ IF Has(summaries, out.req.summaryId.v)
           THEN out.status = 400 /\ out.message = "Invalid recipients"
           ELSE out.status = 404 /\ out.message = "Summary not found"

C7_Witness ==
    /\ out.route = EmailRoute
    /\ EmptyRecipients(out.req)
    /\ Has(summaries, out.req.summaryId.v)
    /\ out.status = 400

\* as the claim defines it: editedContent once an edit has set it (to any
\* string), content otherwise
ClaimedSummaryText(summary) ==
    IF summary.editedContent.t = "string" THEN summary.editedContent.v ELSE summary.content

SummaryTextOf(send) == send.text[Len(send.text)]

\* C8: the summary text in the email body is the loaded Summary's
\* editedContent whenever an edit has set it, the empty string included,
\* and its content only when editedContent was never set.
C8_EffectiveContent ==
    /\ \A r \in InFlight(EmailRoute) : reqs[r].mail # <<>> =>
          SummaryTextOf(reqs[r].mail[1]) = ClaimedSummaryText(reqs[r].summary)
    /\ (out.route = EmailRoute /\ out.trace.mail # <<>>) =>
          SummaryTextOf(out.trace.mail[1]) = ClaimedSummaryText(out.trace.summary)

Addresses == {"a@x.com"}

WellFormedRecipients(req) ==
    LET parsed == JSONParse(req.recipients.v) IN
    /\ IsArray(parsed)
    /\ Len(parsed.v) > 0
    /\ \A i \in 1..Len(parsed.v) : parsed.v[i].t = "string" /\ parsed.v[i].v \in Addresses

\* C9: for an existing summary with an existing transcript, a send request
\* whose recipients string is not a well-formed, non-empty list of addresses
\* is answered 400 'Invalid recipients' and the mail provider is not called.
C9_InvalidRecipients ==
    /\ \A r \in InFlight(EmailRoute) : reqs[r].mail # <<>> => WellFormedRecipients(reqs[r].req)
    /\ (/\ out.route = EmailRoute
        /\ out.req.recipients.t = "string"
        /\ Has(summaries, out.req.summaryId.v)
        /\ ~WellFormedRecipients(out.req)) =>
            /\ out.status = 400
            /\ out.message = "Invalid recipients"
            /\ out.trace.mail = <<>>

\* C10: an EmailShare is stored only by the step in which the mail call of
\* a send request, made earlier by that request, comes back without error:
\* the step answers 200 with the share it appended; a mail call that comes
\* back with an error or throws stores nothing and is answered 500.
C10_ShareOnlyAfterSend ==
    [][/\ emailShares' # emailShares =>
            \E r \in Slots :
                /\ reqs[r].route = EmailRoute /\ reqs[r].pc = "send"
                /\ reqs[r].mail = <<reqs[r].send>>
                /\ reqs'[r] = Idle
                /\ out'.route = EmailRoute /\ out'.status = 200
                /\ out'.req = reqs[r].req
                /\ out'.trace.mail = reqs[r].mail /\ out'.trace.result = "ok"
                /\ out'.body.summaryId = reqs[r].req.summaryId.v
                /\ emailShares' = Append(emailShares, out'.body)
       /\ \A r \in Slots, result \in {"error", "throw"} :
            MailResponds(r, result) =>
                /\ emailShares' = emailShares
                /\ out'.status = 500 /\ out'.body = Undefined
       /\ \A r \in Slots : reqs'[r].route = EmailRoute /\ reqs'[r].pc = "import" =>
                reqs'[r].mail = <<>>
      ]_vars

C10_Witness ==
    /\ out.route = EmailRoute
    /\ out.status = 200
    /\ out.trace.result = "ok"
    /\ out.trace.mail # <<>>
    /\ emailShares = <<out.body>>

\* C11: a send request is validated in the order summary, transcript,
\* recipients: one whose summaryId is unknown is answered 404 'Summary not
\* found' even when its recipients text is empty or malformed; 'Transcript
\* not found' is answered only for a stored summary and 'Invalid recipients'
\* only when summary and transcript are both stored; none of these answers
\* follows a mail call, and a request that reaches the mail call has passed
\* all three.
C11_ValidationOrder ==
    /\ \A r \in InFlight(EmailRoute) :
          /\ Has(summaries, reqs[r].req.summaryId.v)
          /\ Has(transcripts, reqs[r].summary.transcriptId)
          /\ ~InvalidRecipients(JSONParse(reqs[r].req.recipients.v))
    /\ (out.route = EmailRoute /\ EmailSchemaOk(out.req)) =>
          /\ ~Has(summaries, out.req.summaryId.v) =>
                out.status = 404 /\ out.message = "Summary not found"
          /\ out.message = "Transcript not found" =>
                /\ out.status = 404
                /\ Has(summaries, out.req.summaryId.v)
                /\ ~Has(transcripts, getSummary(out.req.summaryId.v).transcriptId)
          /\ out.message = "Invalid recipients" =>
                /\ out.status = 400
                /\ Has(summaries, out.req.summaryId.v)
                /\ Has(transcripts, getSummary(out.req.summaryId.v).transcriptId)
                /\ InvalidRecipients(JSONParse(out.req.recipients.v))
          /\ out.status \in {400, 404} => NothingSent

\* an unknown summaryId with a recipients text that is not JSON, while
\* summaries are stored
C11_Witness ==
    /\ out.route = EmailRoute
    /\ out.status = 404
    /\ out.message = "Summary not found"
    /\ out.req.recipients.t = "string"
    /\ JSONParse(out.req.recipients.v) = SyntaxError
    /\ summaries # <<>>

\* a filename was recorded when it is a non-empty string
DefaultName == "transcript.txt"

ClaimedAttachments(includeTranscript, transcript) ==
    IF includeTranscript = TRUE /\ transcript.content # ""
    THEN <<[filename |-> IF transcript.filename.t = "string" /\ transcript.filename.v # ""
                         THEN transcript.filename.v ELSE DefaultName,
            content |-> transcript.content, type |-> "text/plain"]>>
    ELSE <<>>

\* C12: the mail call of a send request carries exactly one attachment, of
\* type text/plain, whose content is the stored content of the summary's
\* transcript and whose name is that transcript's filename (the default name
\* when none was recorded), if and only if includeTranscript is true and the
\* transcript's content is non-empty; otherwise it carries none.
C12_Attachments ==
    /\ \A r \in InFlight(EmailRoute) : reqs[r].mail # <<>> =>
          reqs[r].mail[1].attachments =
              ClaimedAttachments(reqs[r].req.includeTranscript,
                                 getTranscript(reqs[r].summary.transcriptId))
    /\ (out.route = EmailRoute /\ out.trace.mail # <<>>) =>
          out.trace.mail[1].attachments =
              ClaimedAttachments(out.req.includeTranscript,
                                 getTranscript(out.trace.summary.transcriptId))

\* a mail call with the transcript attached under the default name
C12_Witness ==
    /\ out.route = EmailRoute
    /\ out.status = 200
    /\ out.req.includeTranscript = TRUE
    /\ Len(out.trace.mail) = 1
    /\ Len(out.trace.mail[1].attachments) = 1
    /\ out.trace.mail[1].attachments[1].filename = DefaultName
    /\ out.trace.mail[1].attachments[1].content = "Alice: ship by Friday."
    /\ getTranscript(out.trace.summary.transcriptId).filename = Null

-----------------------------------------------------------------------------
(* Properties of the Record Store *)

\* C13: in every reachable state every stored Summary has the transcriptId
\* of a stored Transcript, and so has every summary request that is waiting
\* for a provider and every Summary an email request has loaded.
C13_SummaryHasTranscript ==
    /\ \A i \in 1..Len(summaries) : Has(transcripts, summaries[i].transcriptId)
    /\ \A r \in InFlight(SummaryRoute) : Has(transcripts, reqs[r].req.transcriptId.v)
    /\ \A r \in InFlight(EmailRoute) : Has(transcripts, reqs[r].summary.transcriptId)

\* a transcript, an edited summary of it and an email share of the summary,
\* after a summary request for an unknown transcript was refused
C13_Witness ==
    /\ Len(transcripts) = 1
    /\ Len(summaries) = 1
    /\ summaries[1].editedContent # Null
    /\ Len(emailShares) = 1
    /\ out.route = SummaryRoute
    /\ out.status = 404

Ids(m) == {m[i].id : i \in 1..Len(m)}

AllIds == Ids(transcripts) \cup Ids(summaries) \cup Ids(emailShares)

\* b is a, followed by the entities of b that a does not hold
Extends(a, b) == Len(a) <= Len(b) /\ \A i \in 1..Len(a) : b[i] = a[i]

Added(a, b) == {b[i].id : i \in (Len(a) + 1)..Len(b)}

\* C14: across every step each map keeps its entities, in place: a stored
\* Transcript and a stored EmailShare are what they were, a stored Summary is
\* what it was but for its editedContent; an entity that the step adds has an
\* id that no stored entity had; and no two entities of a map share an id.
C14_AppendOnly ==
    [][/\ Extends(transcripts, transcripts')
       /\ Extends(emailShares, emailShares')
       /\ Len(summaries) <= Len(summaries')
       /\ \A i \in 1..Len(summaries) :
            summaries'[i] = [summaries[i] EXCEPT !.editedContent = summaries'[i].editedContent]
       /\ (Added(transcripts, transcripts') \cup Added(summaries, summaries')
                \cup Added(emailShares, emailShares')) \cap AllIds = {}
       /\ Cardinality(Ids(transcripts')) = Len(transcripts')
       /\ Cardinality(Ids(summaries')) = Len(summaries')
       /\ Cardinality(Ids(emailShares')) = Len(emailShares')
      ]_vars

\* a summary edited after its email share was stored: content as generated,
\* editedContent changed, transcript and share in place
C14_Witness ==
    /\ out.route = PatchRoute
    /\ out.status = 200
    /\ Len(transcripts) = 1
    /\ Len(emailShares) = 1
    /\ emailShares[1].summaryId = out.req.id
    /\ getSummary(out.req.id).content = ProviderText("Google Gemini")
    /\ getSummary(out.req.id).editedContent = Str("- Ship by Friday (owner: Alice)")

-----------------------------------------------------------------------------
(* Properties of concurrent requests *)

\* C17: whenever a summary request gets a non-empty text from a provider,
\* whatever other summary requests (for the same transcript included) are
\* waiting for theirs, the step appends one Summary to the store, with an id
\* no stored Summary has, the request's transcriptId and prompt and the text
\* the request's own provider call returned; the stored Summaries stay as
\* they were and the waiting requests are not touched.  So N such requests
\* leave N Summaries.
C17_IndependentSummaries ==
    [][\A r \in Slots :
          ProviderResponds(r, "text") =>
             LET s == summaries'[Len(summaries')] IN
             /\ summaries' = Append(summaries, s)
             /\ s.id \notin Ids(summaries)
             /\ s.transcriptId = reqs[r].req.transcriptId.v
             /\ s.prompt = reqs[r].req.prompt.v
             /\ s.content = ProviderText(Providers[reqs[r].stage])
             /\ out'.body = s
             /\ \A q \in Slots \ {r} : reqs'[q] = reqs[q]
      ]_vars

\* One request has just been answered with the Summary it stored while a
\* request for the same transcript, which has made a call already, waits in
\* the second slot.  A request takes the second slot only while the first is
\* taken, and the first slot is free now, so that a response was sent after
\* the waiting request arrived; the last response is the one of the stored
\* Summary, whose request was thus waiting together with the other.
C17_Witness ==
    /\ reqs[1] = Idle
    /\ reqs[2].route = SummaryRoute
    /\ reqs[2].calls # <<>>
    /\ out.route = SummaryRoute
    /\ out.status = 200
    /\ out.trace.calls # <<>>
    /\ summaries = <<out.body>>
    /\ reqs[2].req.transcriptId.v = out.body.transcriptId

\* C18: edits of one summary id are applied one after the other, each to
\* the entity the one before left: an edit to X changes nothing in the store
\* but that summary's editedContent, which becomes X; and when the edit
\* follows another edit of the same id, the stored summary is the one from
\* before both edits with editedContent = X, so that the last edit wins and
\* nothing else of the summary has changed.
C18_LastWriteWins ==
    [][\A id \in SummaryIdInputs, X \in EditStrings :
          (PatchSummary(id, Str(X)) /\ Has(summaries, id)) =>
             /\ summaries' = [i \in 1..Len(summaries) |->
                    IF summaries[i].id = id
                    THEN [summaries[i] EXCEPT !.editedContent = Str(X)]
                    ELSE summaries[i]]
             /\ transcripts' = transcripts /\ emailShares' = emailShares
             /\ (out.route = PatchRoute /\ out.status = 200 /\ out.req.id = id) =>
                    MapGet(summaries', id) = [out.trace.before EXCEPT !.editedContent = Str(X)]
      ]_vars

\* the second of two different edits of one summary was applied while a
\* summary request was waiting for its provider
C18_Witness ==
    /\ out.route = PatchRoute
    /\ out.status = 200
    /\ out.trace.before.editedContent = Str("- Ship by Friday (owner: Alice)")
    /\ out.req.editedContent = Str("- Ship by Friday (gemini)")
    /\ getSummary(out.req.id).editedContent = out.req.editedContent
    /\ getSummary(out.req.id).content = out.trace.before.content
    /\ \E r \in Slots : reqs[r] # Idle

\* C19: an edit with a string for an id that is not stored is answered 404
\* 'Summary not found', and an edit whose editedContent is not a string is
\* answered 400; both leave the store as it was, with no entry for the id.
C19_EditErrors ==
    [][\A id \in SummaryIdInputs, e \in EditedContentInputs :
          PatchSummary(id, e) =>
             /\ (e.t = "string" /\ ~Has(summaries, id)) =>
                    /\ out'.status = 404
                    /\ out'.message = "Summary not found"
                    /\ Store' = Store
                    /\ ~Has(summaries', id)
             /\ e.t # "string" =>
                    /\ out'.status = 400
                    /\ out'.message = "editedContent must be a string"
                    /\ Store' = Store
      ]_vars

\* an edit of an unknown id was refused while summaries are stored
C19_Witness ==
    /\ out.route = PatchRoute
    /\ out.status = 404
    /\ out.req.editedContent.t = "string"
    /\ ~Has(summaries, out.req.id)
    /\ out.trace.before = Undefined
    /\ summaries # <<>>

IdsOf(seq) == [i \in 1..Len(seq) |-> seq[i].id]

\* `result` holds exactly the stored summaries of the transcript, each
\* once, the earlier created first
ExactlyInCreationOrder(result, transcriptId) ==
    /\ {result[i] : i \in 1..Len(result)} =
          {summaries[i] : i \in {k \in 1..Len(summaries) : summaries[k].transcriptId = transcriptId}}
    /\ \A i, j \in 1..Len(result) : i < j =>
          result[i].id # result[j].id /\ result[i].createdAt < result[j].createdAt

\* C20: in every state getSummariesByTranscript(t) is the sequence of
\* the stored Summaries whose transcriptId is t, each once, in the order of
\* their creation; and an edit of a summary leaves the order of the ids in
\* that sequence as it was.
C20_ByTranscriptOrder ==
    [][/\ \A t \in Ids(transcripts) \cup {"no-such-id"} :
            ExactlyInCreationOrder(getSummariesByTranscript(t), t)
       /\ \A id \in SummaryIdInputs, X \in EditStrings :
            PatchSummary(id, Str(X)) =>
               \A t \in Ids(transcripts) :
                  IdsOf(ValuesWhere(summaries', t)) = IdsOf(getSummariesByTranscript(t))
      ]_vars

\* two summaries of one transcript, the first of them edited last
C20_Witness ==
    /\ Len(summaries) = 2
    /\ getSummariesByTranscript(summaries[1].transcriptId) = summaries
    /\ out.route = PatchRoute
    /\ out.status = 200
    /\ out.req.id = summaries[1].id
    /\ summaries[1].editedContent = Str("- Ship by Friday (owner: Alice)")
    /\ summaries[2].editedContent = Null

-----------------------------------------------------------------------------
(* Properties of failure reporting *)

\* the text t occurs in the text s
Contains(s, t) == \E i \in 1..(Len(s) - Len(t) + 1) : SubSeq(s, i, i + Len(t) - 1) = t

MailFailureText(result) == IF result = "error" THEN MailErrorMessage ELSE MailThrowMessage

\* C21: a send request calls the mail service at most once, and when the
\* call fails, by an error result or by throwing, the request is answered
\* 500 with a message that carries the mail service's own error message.
C21_MailFailureSurfaced ==
    /\ \A r \in InFlight(EmailRoute) : Len(reqs[r].mail) <= 1
    /\ out.route = EmailRoute =>
          /\ Len(out.trace.mail) <= 1
          /\ out.trace.result \in {"error", "throw"} =>
                /\ out.status = 500
                /\ Contains(out.message, MailFailureText(out.trace.result))

\* C22: when a summary request is answered with a failure after every
\* provider it called has failed, the message of the answer names each
\* provider that failed.
C22_FailureNamesProviders ==
    (out.route = SummaryRoute /\ out.status = 500 /\ out.trace.calls # <<>>) =>
        \A k \in 1..Len(out.trace.calls) :
            ~out.trace.calls[k].ok => Contains(out.message, out.trace.calls[k].provider)

\* C23: the summary text in the body of a mail call is the effective
\* content, editedContent || content, that the store holds for the summary
\* at the step in which the call is made.
C23_BodyIsCurrentContent ==
    [][\A r \in Slots :
          ImportResolves(r) =>
             SummaryTextOf(reqs'[r].mail[1]) =
                 SummaryContent(getSummary(reqs[r].req.summaryId.v))
      ]_vars

-----------------------------------------------------------------------------
(* Properties of the home page *)

\* C24: whenever the page submits an email for the current summary, every
\* change of the editor having been followed by a blur and every update
\* answered, the summary text of the email composed for it is the text the
\* editor shows.
C24_EditorTextIsEmailed ==
    [][\A r \in Slots :
          (onEmailSubmit(r) /\ reqs'[r] # Idle) =>
             SummaryTextOf(reqs'[r].send) = client.editedSummaryContent
      ]_vars

-----------------------------------------------------------------------------
(* Properties of termination *)

\* what the response a step sends says of the store: a 200 carries the one
\* Summary the step appended, any other status means nothing was stored
StoredAsAnswered ==
    /\ out'.route = SummaryRoute
    /\ out'.status \in {200, 400, 404, 500}
    /\ IF out'.status = 200
       THEN /\ summaries' = Append(summaries, out'.body)
            /\ UNCHANGED <<transcripts, emailShares>>
       ELSE UNCHANGED Store

\* C25: when every provider call returns or throws, every summary request
\* that was suspended ends, and it is answered exactly once: the step that
\* ends it sends its response, and a step that suspends it or leaves it
\* suspended sends none, stores nothing and moves it to a later provider.
\* The step that answers 200 appends exactly one Summary, the one in the
\* response, and changes nothing else of the store; the step that answers
\* 400, 404 or 500 leaves the store as it was.
C25_TerminatesOnce ==
    /\ [][/\ Cardinality({r \in Slots : reqs'[r] # reqs[r]}) <= 1
          /\ \A r \in Slots :
               /\ (reqs[r] # Idle /\ reqs'[r] = Idle) =>
                      /\ out'.req = reqs[r].req
                      /\ Len(out'.trace.calls) = Len(reqs[r].calls) + 1
                      /\ StoredAsAnswered
               /\ (reqs[r] # Idle /\ reqs'[r] # Idle /\ reqs'[r] # reqs[r]) =>
                      /\ UNCHANGED <<out, Store>>
                      /\ reqs'[r].req = reqs[r].req
                      /\ reqs'[r].stage > reqs[r].stage
               /\ (reqs[r] = Idle /\ reqs'[r] # Idle) => UNCHANGED <<out, Store>>
          /\ (reqs' = reqs /\ out' # out /\ out'.route = SummaryRoute) =>
               /\ out'.status # 200
               /\ StoredAsAnswered
         ]_vars
    /\ \A r \in Slots : (reqs[r] # Idle) ~> (reqs[r] = Idle)

\* after one summary was stored, a request whose three provider calls all
\* failed has been answered 500, and the store holds that one summary
C25_Witness ==
    /\ out.route = SummaryRoute
    /\ out.status = 500
    /\ out.message = AllFailedMessage
    /\ Len(out.trace.calls) = 3
    /\ Len(summaries) = 1
    /\ \A r \in Slots : reqs[r] = Idle

====
